---------------------------- MODULE Spec2Model ----------------------------
(***************************************************************************)
(* Model of the EV price tracker backend: the scrape orchestrator          *)
(* (backend/main.py), the listing store and the price-history aggregation  *)
(* (backend/database.py) and the marketplace adapters (backend/scraper).   *)
(*                                                                         *)
(* Text is a sequence of one-character strings, so that the parsers of     *)
(* scraper/base.py and the regular expressions of the adapters are         *)
(* computed, not assumed.  An optional value is None (the empty tuple) or  *)
(* Some(v) (a one-element tuple).                                          *)
(***************************************************************************)
EXTENDS Integers, Sequences, FiniteSets, TLC

None == <<>>
Some(v) == <<v>>
IsSome(o) == o # None
Val(o) == o[1]

Min(S) == CHOOSE x \in S : \A y \in S : x <= y
Max(S) == CHOOSE x \in S : \A y \in S : x >= y

(***************************************************************************)
(* Characters                                                              *)
(***************************************************************************)
DigitChars == <<"0","1","2","3","4","5","6","7","8","9">>
Digit == {DigitChars[i] : i \in 1..10}
DigitVal(c) == (CHOOSE i \in 1..10 : DigitChars[i] = c) - 1
UpperChars == <<"A","B","C","D","E","F","G","H","I","J","K","L","M",
                "N","O","P","Q","R","S","T","U","V","W","X","Y","Z">>
LowerChars == <<"a","b","c","d","e","f","g","h","i","j","k","l","m",
                "n","o","p","q","r","s","t","u","v","w","x","y","z">>
Upper == {UpperChars[i] : i \in 1..26}
Lower == {LowerChars[i] : i \in 1..26}
Space == {" ", "\n", "\t"}
DigitComma == Digit \cup {","}

\* str.lower(), one character
LowerChar(c) ==
    IF c \in Upper THEN LowerChars[CHOOSE i \in 1..26 : UpperChars[i] = c] ELSE c

\* str.lower()
ToLower(s) == [i \in 1..Len(s) |-> LowerChar(s[i])]

\* the substring test  pat in s
Contains(s, pat) ==
    \E i \in 1..(Len(s) - Len(pat) + 1) : SubSeq(s, i, i + Len(pat) - 1) = pat

\* s.startswith(pat)
StartsWith(s, pat) == Len(s) >= Len(pat) /\ SubSeq(s, 1, Len(pat)) = pat

\* the last index of the longest run of characters of S that starts at i
\* (s[i] is in S)
RunEnd(s, i, S) ==
    CHOOSE j \in i..Len(s) :
        /\ \A k \in i..j : s[k] \in S
        /\ (j = Len(s) \/ s[j + 1] \notin S)

\* the last index of the (possibly empty) run of characters of S after j
SkipEnd(s, j, S) ==
    IF j < Len(s) /\ s[j + 1] \in S THEN RunEnd(s, j + 1, S) ELSE j

\* "".join(c for c in s if c.isdigit())
RECURSIVE DigitsOf(_)
DigitsOf(s) ==
    IF s = <<>> THEN <<>>
    ELSE IF Head(s) \in Digit THEN <<Head(s)>> \o DigitsOf(Tail(s))
    ELSE DigitsOf(Tail(s))

\* int(s) of a non-empty string of digits
RECURSIVE ToInt(_)
ToInt(s) ==
    IF Len(s) = 1 THEN DigitVal(s[1])
    ELSE 10 * ToInt(SubSeq(s, 1, Len(s) - 1)) + DigitVal(s[Len(s)])

(***************************************************************************)
(* scraper/base.py: the parsers shared by the adapters                     *)
(***************************************************************************)
\* BaseScraper.parse_price: 0 for an empty text or one without digits
parse_price(price_text) ==
    IF price_text = <<>> THEN 0
    ELSE LET cleaned == DigitsOf(price_text)
         IN  IF cleaned = <<>> THEN 0 ELSE ToInt(cleaned)

\* BaseScraper.parse_mileage: None for an empty text or one without digits
parse_mileage(mileage_text) ==
    IF mileage_text = <<>> THEN None
    ELSE LET cleaned == DigitsOf(mileage_text)
         IN  IF cleaned = <<>> THEN None ELSE Some(ToInt(cleaned))

\* BaseScraper.parse_year: the first match of 20[0-2]\d
parse_year(year_text) ==
    LET starts == {i \in 1..(Len(year_text) - 3) :
                      /\ year_text[i] = "2"
                      /\ year_text[i + 1] = "0"
                      /\ year_text[i + 2] \in {"0", "1", "2"}
                      /\ year_text[i + 3] \in Digit}
    IN  IF year_text = <<>> \/ starts = {} THEN None
        ELSE Some(ToInt(SubSeq(year_text, Min(starts), Min(starts) + 3)))

\* ListingData(external_id, price, year, mileage, location, url)
ListingData(external_id, price, year, mileage, location, url) ==
    [external_id |-> external_id, price |-> price, year |-> year,
     mileage |-> mileage, location |-> location, url |-> url]

(***************************************************************************)
(* The regular expressions of the adapters                                 *)
(***************************************************************************)
\* re.search(r'\$[\d,]+', text): the matched text, or None
PriceMatch(text) ==
    LET starts == {i \in 1..(Len(text) - 1) :
                      text[i] = "$" /\ text[i + 1] \in DigitComma}
    IN  IF starts = {} THEN None
        ELSE LET i == Min(starts)
             IN  Some(SubSeq(text, i, RunEnd(text, i + 1, DigitComma)))

\* re.search(r'([\d,]+)\s*mi', text, re.IGNORECASE): group 1, or None
MileageMatch(text) ==
    LET ok(i) == /\ text[i] \in DigitComma
                 /\ LET k == SkipEnd(text, RunEnd(text, i, DigitComma), Space)
                    IN  /\ k + 2 <= Len(text)
                        /\ LowerChar(text[k + 1]) = "m"
                        /\ LowerChar(text[k + 2]) = "i"
        starts == {i \in 1..Len(text) : ok(i)}
    IN  IF starts = {} THEN None
        ELSE LET i == Min(starts)
             IN  Some(SubSeq(text, i, RunEnd(text, i, DigitComma)))

\* the end of a match of  [A-Z][a-z]+(?:\s[A-Z][a-z]+)*,\s*[A-Z]{2}  that
\* starts at i, or 0
RECURSIVE LocationEnd(_, _)
LocationEnd(text, i) ==
    IF ~(i + 1 <= Len(text) /\ text[i] \in Upper /\ text[i + 1] \in Lower) THEN 0
    ELSE LET j == RunEnd(text, i + 1, Lower)
         IN  IF j + 1 <= Len(text) /\ text[j + 1] = ","
             THEN LET k == SkipEnd(text, j + 1, Space)
                  IN  IF k + 2 <= Len(text) /\ text[k + 1] \in Upper
                                            /\ text[k + 2] \in Upper
                      THEN k + 2 ELSE 0
             ELSE IF j + 2 <= Len(text) /\ text[j + 1] \in Space
                  THEN LocationEnd(text, j + 2)
                  ELSE 0

\* re.search(r'([A-Z][a-z]+(?:\s[A-Z][a-z]+)*,\s*[A-Z]{2})', text): group 1
LocationMatch(text) ==
    LET starts == {i \in 1..Len(text) : LocationEnd(text, i) # 0}
    IN  IF starts = {} THEN None
        ELSE Some(SubSeq(text, Min(starts), LocationEnd(text, Min(starts))))

VehicleDetail == <<"/","v","e","h","i","c","l","e","d","e","t","a","i","l","/">>

\* re.search(r'/vehicledetail/([^/]+)/', href): group 1, or None
IdMatch(href) ==
    LET n == Len(VehicleDetail)
        ok(i) == /\ SubSeq(href, i, i + n - 1) = VehicleDetail
                 /\ i + n <= Len(href)
                 /\ href[i + n] # "/"
                 /\ LET j == CHOOSE j \in (i + n)..Len(href) :
                                 /\ \A k \in (i + n)..j : href[k] # "/"
                                 /\ (j = Len(href) \/ href[j + 1] = "/")
                    IN  j < Len(href)
        starts == {i \in 1..(Len(href) - n) : ok(i)}
    IN  IF starts = {} THEN None
        ELSE LET i == Min(starts)
                 j == CHOOSE j \in (i + n)..Len(href) :
                          /\ \A k \in (i + n)..j : href[k] # "/"
                          /\ href[j + 1] = "/"
             IN  Some(SubSeq(href, i + n, j))


(***************************************************************************)
(* scraper/carscom.py                                                      *)
(***************************************************************************)
CarsComBaseUrl ==
    <<"h","t","t","p","s",":","/","/","w","w","w",".","c","a","r","s",".","c","o","m">>
Http == <<"h","t","t","p">>

\* the smallest text examined: len(text_content) < 20 is skipped
MinTextLen == 20
\* a price is kept only above this
MinPrice == 5000
\* the sanity check of _parse_listing_text and of CarGurus' _parse_listing
MaxPrice == 500000
\* links[:60]
CarsComLinkCap == 60
\* if count >= 30: break
CarsComYieldCap == 30

\* CarsComScraper._parse_listing_text: Some(ListingData), or None (rejected)
CarsCom_parse_listing_text(text, external_id, href, make) ==
    LET price_match == PriceMatch(text)
        price == IF IsSome(price_match) THEN parse_price(Val(price_match)) ELSE 0
        mileage_match == MileageMatch(text)
    IN  IF price = 0 \/ price > MaxPrice THEN None
        ELSE IF ~Contains(ToLower(text), ToLower(make)) THEN None
        ELSE Some(ListingData(
                 external_id,
                 price,
                 parse_year(text),
                 IF IsSome(mileage_match) THEN parse_mileage(Val(mileage_match))
                                          ELSE None,
                 LocationMatch(text),
                 IF ~StartsWith(href, Http) THEN CarsComBaseUrl \o href ELSE href))

\* One pass of the body of  for link in links[:60]  of
\* CarsComScraper.scrape_listings.  A link is [href, text, raises]: the href
\* attribute (None when absent), the inner text of its card (None when
\* empty) and the extraction call that raises ("none", "href", "text").
\* The result is the new seen_ids and the ListingData yielded, if any.
CarsCom_link(link, seen_ids, make) ==
    LET skip == [seen_ids |-> seen_ids, out |-> None]
        id_match == IdMatch(Val(link.href))
        external_id == Val(id_match)
        seen == [seen_ids |-> seen_ids \cup {external_id}, out |-> None]
        listing_data ==
            CarsCom_parse_listing_text(Val(link.text), external_id,
                                       Val(link.href), make)
    IN  IF link.raises = "href" THEN skip
        ELSE IF link.href = None \/ Val(link.href) = <<>> THEN skip
        ELSE IF id_match = None THEN skip
        ELSE IF external_id \in seen_ids THEN skip
        ELSE IF link.raises = "text" THEN seen
        ELSE IF link.text = None \/ Len(Val(link.text)) < MinTextLen THEN seen
        ELSE IF IsSome(listing_data) /\ Val(listing_data).price > MinPrice
             THEN [seen_ids |-> seen_ids \cup {external_id}, out |-> listing_data]
             ELSE seen

\* str(n) of a natural number
RECURSIVE IntToStr(_)
IntToStr(n) ==
    IF n < 10 THEN <<DigitChars[n + 1]>>
    ELSE IntToStr(n \div 10) \o <<DigitChars[(n % 10) + 1]>>

\* hash(s) of a str: a function of the text within one process (the value
\* itself depends on the hash seed of the process); here the length and the
\* number of digits of the text stand for it
PyHash(s) == 31 * Len(s) + Len(DigitsOf(s))

\* s.split()[0] of a text that holds a word
FirstWord(s) ==
    LET i == Min({k \in 1..Len(s) : s[k] \notin Space})
        j == CHOOSE j \in i..Len(s) :
                 /\ \A k \in i..j : s[k] \notin Space
                 /\ (j = Len(s) \/ s[j + 1] \in Space)
    IN  SubSeq(s, i, j)

\* if not x, of an optional text
Falsy(o) == o = None \/ Val(o) = <<>>

(***************************************************************************)
(* scraper/cargurus.py                                                     *)
(***************************************************************************)
CarGurusBaseUrl ==
    <<"h","t","t","p","s",":","/","/","w","w","w",".","c","a","r","g","u","r","u","s",".","c","o","m">>
\* listings[:30]
CarGurusCap == 30
\* % 100000 of the fallback identifiers
HashMod == 100000

\* CarGurusScraper._parse_listing.  An element is [inner_text, data_listing_id,
\* id, link_href, href, raises]: its inner text, its two id attributes, the
\* href of the a[href*="/Cars/"] inside it (None: there is none), its own
\* href attribute, and the call that raises ("none", "inner_text", "attr").
CarGurus_parse_listing(listing, make, model) ==
    IF listing.raises = "inner_text" THEN None
    ELSE
    LET text_content == listing.inner_text
        external_id ==
            IF ~Falsy(listing.data_listing_id) THEN Val(listing.data_listing_id)
            ELSE IF ~Falsy(listing.id) THEN Val(listing.id)
            ELSE <<"c","g","-">> \o IntToStr(PyHash(text_content) % HashMod)
        price_match == PriceMatch(text_content)
        price == IF IsSome(price_match) THEN parse_price(Val(price_match)) ELSE 0
        text_lower == ToLower(text_content)
        mileage_match == MileageMatch(text_content)
        href == IF IsSome(listing.link_href) THEN Val(listing.link_href)
                ELSE IF ~Falsy(listing.href) THEN Val(listing.href)
                ELSE <<>>
    IN  IF Len(text_content) < MinTextLen THEN None
        ELSE IF price = 0 \/ price > MaxPrice THEN None
        ELSE IF \/ ~Contains(text_lower, ToLower(make))
                \/ ~Contains(text_lower, FirstWord(ToLower(model)))
             THEN None
        ELSE Some(ListingData(
                 external_id,
                 price,
                 parse_year(text_content),
                 IF IsSome(mileage_match) THEN parse_mileage(Val(mileage_match))
                                          ELSE None,
                 LocationMatch(text_content),
                 IF href # <<>> /\ ~StartsWith(href, Http)
                 THEN CarGurusBaseUrl \o href ELSE href))

\* One pass of the body of  for listing in listings[:30]  of
\* CarGurusScraper.scrape_listings: the ListingData yielded, if any
CarGurus_element(listing, make, model) ==
    LET listing_data == CarGurus_parse_listing(listing, make, model)
    IN  IF listing.raises = "attr" THEN None
        ELSE IF IsSome(listing_data) /\ Val(listing_data).price > MinPrice
             THEN listing_data
             ELSE None

(***************************************************************************)
(* scraper/autotrader.py                                                   *)
(***************************************************************************)
AutotraderBaseUrl ==
    <<"h","t","t","p","s",":","/","/","w","w","w",".","a","u","t","o","t","r","a","d","e","r",".","c","o","m">>
\* listings[:30]
AutotraderCap == 30

\* re.search(r"/(\d+)(?:\?|$)", url): group 1, or None
UrlIdMatch(url) ==
    LET ok(i) == /\ url[i] = "/"
                 /\ i + 1 <= Len(url)
                 /\ url[i + 1] \in Digit
                 /\ LET j == RunEnd(url, i + 1, Digit)
                    IN  \/ j = Len(url)
                        \/ url[j + 1] = "?"
                        \/ (j + 1 = Len(url) /\ url[j + 1] = "\n")
        starts == {i \in 1..Len(url) : ok(i)}
    IN  IF starts = {} THEN None
        ELSE Some(SubSeq(url, Min(starts) + 1, RunEnd(url, Min(starts) + 1, Digit)))

\* AutotraderScraper._parse_listing.  An element is [data_listing_id, id,
\* price_text, title_text, mileage_text, location, href, raises]: its two id
\* attributes, the inner texts of its price, title, mileage and location
\* elements (None: no such element), the href of its link (None: no link)
\* and whether a call raises ("none", "attr").
Autotrader_parse_listing(listing) ==
    LET price_text == IF IsSome(listing.price_text) THEN Val(listing.price_text) ELSE <<>>
        price == parse_price(price_text)
        title_text == IF IsSome(listing.title_text) THEN Val(listing.title_text) ELSE <<>>
        mileage_text == IF IsSome(listing.mileage_text) THEN Val(listing.mileage_text)
                        ELSE <<>>
        href == IF IsSome(listing.href) THEN Val(listing.href) ELSE <<>>
        url == IF href # <<>> /\ ~StartsWith(href, Http)
               THEN AutotraderBaseUrl \o href ELSE href
        attr_id == IF ~Falsy(listing.data_listing_id) THEN listing.data_listing_id
                   ELSE IF ~Falsy(listing.id) THEN listing.id
                   ELSE None
        url_id == IF attr_id = None /\ url # <<>> THEN UrlIdMatch(url) ELSE attr_id
        external_id ==
            IF ~Falsy(url_id) THEN Val(url_id)
            ELSE <<"a","t","-">>
                     \o IntToStr(PyHash(title_text \o IntToStr(price)) % HashMod)
    IN  IF price = 0 THEN None
        ELSE Some(ListingData(external_id, price, parse_year(title_text),
                              parse_mileage(mileage_text), listing.location, url))

\* One pass of the body of  for listing in listings[:30]  of
\* AutotraderScraper.scrape_listings: the ListingData yielded, if any
Autotrader_element(listing) ==
    LET listing_data == Autotrader_parse_listing(listing)
    IN  IF listing.raises = "attr" THEN None
        ELSE IF IsSome(listing_data) /\ Val(listing_data).price > MinPrice
             THEN listing_data
             ELSE None

(***************************************************************************)
(* backend/database.py: the listings and price_history tables              *)
(***************************************************************************)
\* a row of listings, without its rowid and scraped_at
ListingRow(model_id, source, l) ==
    [model_id |-> model_id, source |-> source, external_id |-> l.external_id,
     year |-> l.year, price |-> l.price, mileage |-> l.mileage,
     location |-> l.location, url |-> l.url]

\* save_listing as a plain INSERT, with no unique key to replace on
save_listing_insert(table, model_id, source, l) ==
    table \cup {ListingRow(model_id, source, l)}

\* save_listing: INSERT OR REPLACE under UNIQUE(source, external_id)
save_listing(table, model_id, source, l) ==
    {r \in table : ~(r.source = source /\ r.external_id = l.external_id)}
        \cup {ListingRow(model_id, source, l)}

RECURSIVE SumPrice(_)
SumPrice(rows) ==
    IF rows = {} THEN 0
    ELSE LET r == CHOOSE r \in rows : TRUE
         IN  r.price + SumPrice(rows \ {r})

RECURSIVE SumMileage(_)
SumMileage(rows) ==
    IF rows = {} THEN 0
    ELSE LET r == CHOOSE r \in rows : TRUE
         IN  Val(r.mileage) + SumMileage(rows \ {r})

RECURSIVE GCD(_, _)
GCD(a, b) == IF b = 0 THEN a ELSE GCD(b, a % b)

\* AVG(): the exact quotient sum/count, as a reduced fraction <<num, den>>
Avg(sum, count) ==
    LET g == GCD(sum, count)
    IN  IF g = 0 THEN <<0, 1>> ELSE <<sum \div g, count \div g>>

\* the SELECT of update_price_history: the rows of the model with price > 0
PricedRows(table, model_id) ==
    {r \in table : r.model_id = model_id /\ r.price > 0}

\* the aggregate row the SELECT ... GROUP BY model_id yields for a
\* non-empty group
SnapshotRow(rows, model_id, date) ==
    LET withMileage == {r \in rows : IsSome(r.mileage)}
    IN  [model_id |-> model_id, date |-> date,
         avg_price |-> Avg(SumPrice(rows), Cardinality(rows)),
         min_price |-> Min({r.price : r \in rows}),
         max_price |-> Max({r.price : r \in rows}),
         listing_count |-> Cardinality(rows),
         avg_mileage |-> IF withMileage = {} THEN None
                         ELSE Some(Avg(SumMileage(withMileage),
                                       Cardinality(withMileage)))]

\* update_price_history: INSERT OR REPLACE ... SELECT ... GROUP BY model_id
\* under UNIQUE(model_id, date); an empty group selects no row
update_price_history(history, table, model_id, date) ==
    LET rows == PricedRows(table, model_id)
    IN  IF rows = {} THEN history
        ELSE {h \in history : ~(h.model_id = model_id /\ h.date = date)}
                 \cup {SnapshotRow(rows, model_id, date)}


(***************************************************************************)
(* Bounds and sample inputs                                                *)
(***************************************************************************)
\* run_scrape background tasks ever added
MaxTasks == 2
\* links a results page holds
MaxLinks == 2
\* days the calendar can advance to
MaxDay == 2
\* elements of a page an adapter used on its own goes through: one more
\* than the longest slice an adapter takes (links[:60])
MaxElems == 61

\* the rows of the models table that are tracked here: two of
\* database.EV_MODELS, with the rowids init_db gives them, in the order of
\* get_all_models (ORDER BY make, model)
Catalog ==
    << [id |-> 16, make |-> <<"B","M","W">>, model |-> <<"i","4">>],
       [id |-> 5, make |-> <<"F","o","r","d">>,
        model |-> <<"M","u","s","t","a","n","g"," ","M","a","c","h","-","E">>] >>

TitleBMW ==
    <<"2","0","2","2"," ","B","M","W"," ","i","4"," ","e","D","r","i","v","e","4","0"," ">>
TitleFord ==
    <<"2","0","2","1"," ","F","o","r","d"," ","M","u","s","t","a","n","g"," ","M","a","c","h","-","E"," ">>
TailText ==
    <<" ","4","5",",","2","3","1"," ","m","i","."," ","H","o","u","s","t","o","n",","," ","T","X">>
Price25k == <<"$","2","5",",","0","0","0">>
Price30k == <<"$","3","0",",","0","0","0">>
Price4500 == <<"$","4",",","5","0","0">>
Price600k == <<"$","6","0","0",",","0","0","0">>
HrefA == <<"/","v","e","h","i","c","l","e","d","e","t","a","i","l","/","a","1","/">>
HrefB == <<"/","v","e","h","i","c","l","e","d","e","t","a","i","l","/","b","2","/">>

Link(href, text, raises) == [href |-> href, text |-> text, raises |-> raises]

\* the links a Cars.com results page is made of in a run
RunLinks ==
    { Link(Some(HrefA), Some(TitleBMW \o Price25k \o TailText), "none"),
      Link(Some(HrefA), Some(TitleFord \o Price30k), "none"),
      Link(Some(HrefB), Some(TitleFord \o Price25k \o TailText), "none"),
      Link(Some(HrefB), Some(TitleBMW \o Price600k \o TailText), "none"),
      Link(None, None, "none") }

(***************************************************************************)
(* backend/main.py: the state                                              *)
(***************************************************************************)
VARIABLES
    scrape_status,  \* the module-level dict of main.py
    tasks,          \* the run_scrape background tasks, by slot
    listings,       \* the listings table
    price_history,  \* the price_history table
    today,          \* date.today()
    response,       \* the last HTTP response sent
    scraper         \* an adapter used on its own: its scrape_listings

vars == <<scrape_status, tasks, listings, price_history, today, response, scraper>>

TaskIds == 1..MaxTasks

\* scrapers = [(CarsComScraper, "cars.com")]
scrapers == << <<"c","a","r","s",".","c","o","m">> >>

\* the resources __aenter__ acquires, in its order; __aexit__ releases them
\* in the reverse order
Resources == <<"playwright", "browser", "context", "page">>
Acquired(k) == {Resources[i] : i \in 1..k}
\* what is still held when the release step j of __aexit__ raises: the
\* resource of that step and those of the steps after it
HeldFrom(j) == {Resources[i] : i \in 1..(5 - j)}

\* get_all_models()
get_all_models == Catalog

\* [m for m in models if m["id"] in model_ids]
RECURSIVE FilterModels(_, _)
FilterModels(models, model_ids) ==
    IF models = <<>> THEN <<>>
    ELSE (IF Head(models).id \in model_ids THEN <<Head(models)>> ELSE <<>>)
             \o FilterModels(Tail(models), model_ids)

\* f"{make} {model_name}"
Label(m) == m.make \o <<" ">> \o m.model

\* f"Error scraping {make} {model_name} from {source_name}: {str(e)}"
ErrorMsg(m, source_name, e) ==
    [what |-> "Error scraping", label |-> Label(m), source |-> source_name,
     error |-> e]

\* a background task: where it stands in run_scrape (pc), its argument, its
\* locals, the locals of the generator it drives (li, seen_ids, count), the
\* external ids it has saved in the current attempt (saved), what
\* scrape_listings has caught and printed (caught), the exception that is
\* propagating (exc) and what the scraper object holds (res)
FreeTask ==
    [pc |-> "free", model_ids |-> None, models |-> <<>>, mi |-> 0, si |-> 0,
     li |-> 0, seen_ids |-> {}, count |-> 0, saved |-> {}, caught |-> None,
     exc |-> None, res |-> {}]

\* no scrape_listings is under way
IdleScraper ==
    [pc |-> "idle", adapter |-> "none", target |-> 0, li |-> 0, seen_ids |-> {},
     count |-> 0, out |-> None]

\* a task whose run_scrape has returned
DoneTask == [FreeTask EXCEPT !.pc = "done"]

Init ==
    /\ scrape_status = [is_running |-> FALSE, current_model |-> None,
                        progress |-> 0, total |-> 0, errors |-> <<>>]
    /\ tasks = [t \in TaskIds |-> FreeTask]
    /\ listings = {}
    /\ price_history = {}
    /\ today = 1
    /\ response = [op |-> "none", code |-> 0]
    /\ scraper = IdleScraper

(***************************************************************************)
(* backend/main.py: the endpoints                                          *)
(***************************************************************************)
\* get_scrape_status
get_scrape_status ==
    /\ response' = [op |-> "status", code |-> 200]
    /\ UNCHANGED <<scrape_status, tasks, listings, price_history, today, scraper>>

\* trigger_scrape without its is_running check: the task is always added
trigger_scrape_unguarded(model_id) ==
    /\ \E t \in TaskIds : tasks[t].pc = "free"
    /\ LET t == Min({u \in TaskIds : tasks[u].pc = "free"})
       IN  tasks' = [tasks EXCEPT ![t] =
                        [FreeTask EXCEPT !.pc = "scheduled",
                                         !.model_ids = IF model_id # None /\ Val(model_id) # 0
                                                       THEN Some({Val(model_id)})
                                                       ELSE None]]
    /\ response' = [op |-> "trigger", code |-> 200]
    /\ UNCHANGED <<scrape_status, listings, price_history, today, scraper>>

\* trigger_scrape(model_id): 409 while is_running, else the task is added
\* to the background tasks of the request and runs after the response
trigger_scrape(model_id) ==
    IF scrape_status.is_running
    THEN /\ response' = [op |-> "trigger", code |-> 409]
         /\ UNCHANGED <<scrape_status, tasks, listings, price_history, today, scraper>>
    ELSE /\ \E t \in TaskIds : tasks[t].pc = "free"
         /\ LET t == Min({u \in TaskIds : tasks[u].pc = "free"})
                model_ids == IF model_id # None /\ Val(model_id) # 0
                             THEN Some({Val(model_id)}) ELSE None
            IN  tasks' = [tasks EXCEPT ![t] =
                             [FreeTask EXCEPT !.pc = "scheduled",
                                              !.model_ids = model_ids]]
         /\ response' = [op |-> "trigger", code |-> 200]
         /\ UNCHANGED <<scrape_status, listings, price_history, today, scraper>>

(***************************************************************************)
(* backend/main.py: run_scrape, one action per stretch between awaits      *)
(***************************************************************************)
\* the reset of the status without  is_running = False
finally_keeps_running(st) ==
    [st EXCEPT !.current_model = None, !.progress = st.total]

\* the finally clause without  progress = total
finally_keeps_progress(st) ==
    [st EXCEPT !.is_running = FALSE, !.current_model = None]

\* the finally clause
finally(st) ==
    [st EXCEPT !.is_running = FALSE, !.current_model = None, !.progress = st.total]

\* one adapter attempt whose  progress += 1  is skipped when the attempt
\* raised (as if it stood at the end of the try block)
attempt_done_in_try(st, m, source_name, e) ==
    [st EXCEPT !.errors = IF e = None THEN @
                          ELSE Append(@, ErrorMsg(m, source_name, Val(e))),
               !.progress = IF e = None THEN @ + 1 ELSE @]

\* the except clause of one adapter attempt (e is None when nothing was
\* raised) and the  progress += 1  after it
attempt_done(st, m, source_name, e) ==
    [st EXCEPT !.errors = IF e = None THEN @
                          ELSE Append(@, ErrorMsg(m, source_name, Val(e))),
               !.progress = @ + 1]

\* run_scrape without its guard
run_guard_missing(st) == FALSE

\* the guard of run_scrape: whether the invocation returns at once
run_guard(st) == st.is_running

\* the task leaves run_scrape through the finally clause
Finish(t) ==
    /\ scrape_status' = finally(scrape_status)
    /\ tasks' = [tasks EXCEPT ![t] = DoneTask]

\* run_scrape up to its first await: the guard, is_running, errors
StartRun(t) ==
    /\ tasks[t].pc = "scheduled"
    /\ IF run_guard(scrape_status)
       THEN /\ tasks' = [tasks EXCEPT ![t] = DoneTask]
            /\ UNCHANGED scrape_status
       ELSE /\ scrape_status' = [scrape_status EXCEPT !.is_running = TRUE,
                                                      !.errors = <<>>]
            /\ tasks' = [tasks EXCEPT ![t].pc = "settings"]
    /\ UNCHANGED <<listings, price_history, today, response, scraper>>

\* settings = await get_settings()
GetSettings(t) ==
    /\ tasks[t].pc = "settings"
    /\ \/ /\ tasks' = [tasks EXCEPT ![t].pc = "models"]
          /\ UNCHANGED scrape_status
       \/ Finish(t)
    /\ UNCHANGED <<listings, price_history, today, response, scraper>>

\* models = await get_all_models(), the filter, total, progress, and the
\* head of the first pass of  for model in models
GetModels(t) ==
    /\ tasks[t].pc = "models"
    /\ \/ LET all == get_all_models
              models == IF tasks[t].model_ids # None
                        THEN FilterModels(all, Val(tasks[t].model_ids))
                        ELSE all
              st == [scrape_status EXCEPT
                         !.total = Len(models) * Len(scrapers), !.progress = 0]
          IN  IF models = <<>>
              THEN /\ scrape_status' = finally(st)
                   /\ tasks' = [tasks EXCEPT ![t] = DoneTask]
              ELSE /\ scrape_status' =
                          [st EXCEPT !.current_model = Some(Label(models[1]))]
                   /\ tasks' = [tasks EXCEPT ![t].pc = "enter",
                                             ![t].models = models,
                                             ![t].mi = 1, ![t].si = 1]
       \/ Finish(t)
    /\ UNCHANGED <<listings, price_history, today, response, scraper>>

\* async with ScraperClass(...) as scraper: __aenter__ acquires k of its
\* four resources; when one acquisition raises, __aexit__ is not called,
\* the except clause records the error and progress advances.  res is what
\* the scraper object still holds when the attempt is over.
AEnter(t) ==
    /\ tasks[t].pc = "enter"
    /\ \E k \in 0..4 :
          IF k = 4
          THEN /\ tasks' = [tasks EXCEPT ![t].pc = "goto", ![t].res = Acquired(4)]
               /\ UNCHANGED scrape_status
          ELSE /\ scrape_status' =
                      attempt_done(scrape_status, tasks[t].models[tasks[t].mi],
                                   scrapers[tasks[t].si], Some("SetupError"))
               /\ tasks' = [tasks EXCEPT ![t].pc = "sleep", ![t].res = Acquired(k)]
    /\ UNCHANGED <<listings, price_history, today, response, scraper>>

\* scrape_listings up to its loop: page.goto, the scrolls and
\* query_selector_all; whatever they raise is caught and printed by
\* scrape_listings itself, and the generator ends
Goto(t) ==
    /\ tasks[t].pc = "goto"
    /\ \/ tasks' = [tasks EXCEPT ![t].pc = "links"]
       \/ tasks' = [tasks EXCEPT ![t].pc = "exit",
                                 ![t].caught = Some("TimeoutError")]
    /\ UNCHANGED <<scrape_status, listings, price_history, today, response, scraper>>

\* where the generator stands after one more link: the break at
\* count >= 30 and the end of links[:60]
AfterLink(task, count) ==
    IF count >= CarsComYieldCap \/ task.li + 1 >= CarsComLinkCap
    THEN "exit" ELSE "links"

\* the page holds no further link: the loop and the generator end
EndLinks(t) ==
    /\ tasks[t].pc = "links"
    /\ tasks' = [tasks EXCEPT ![t].pc = "exit"]
    /\ UNCHANGED <<scrape_status, listings, price_history, today, response, scraper>>

\* one link of  for link in links[:60]  and, when it yields, the
\* save_listing of the orchestrator
ScrapeLink(t) ==
    /\ tasks[t].pc = "links"
    /\ tasks[t].li < MaxLinks
    /\ \E link \in RunLinks :
          LET task == tasks[t]
              m == task.models[task.mi]
              r == CarsCom_link(link, task.seen_ids, m.make)
          IN  IF r.out = None
              THEN /\ tasks' = [tasks EXCEPT ![t].seen_ids = r.seen_ids,
                                             ![t].li = task.li + 1,
                                             ![t].pc = AfterLink(task, task.count)]
                   /\ UNCHANGED listings
              ELSE \/ /\ listings' = save_listing(listings, m.id,
                                                  scrapers[task.si], Val(r.out))
                      /\ tasks' = [tasks EXCEPT
                                      ![t].seen_ids = r.seen_ids,
                                      ![t].li = task.li + 1,
                                      ![t].count = task.count + 1,
                                      ![t].saved = task.saved
                                                       \cup {Val(r.out).external_id},
                                      ![t].pc = AfterLink(task, task.count + 1)]
                   \/ /\ tasks' = [tasks EXCEPT ![t].exc = Some("DbError"),
                                                ![t].pc = "exit"]
                      /\ UNCHANGED listings
    /\ UNCHANGED <<scrape_status, price_history, today, response, scraper>>

\* __aexit__: every release succeeds (j = 0) or the release step j raises,
\* which replaces the exception of the body; then the except clause and
\* progress += 1
AExit(t) ==
    /\ tasks[t].pc = "exit"
    /\ \E j \in 0..4 :
          LET e == IF j = 0 THEN tasks[t].exc ELSE Some("TeardownError")
          IN  /\ scrape_status' =
                     attempt_done(scrape_status, tasks[t].models[tasks[t].mi],
                                  scrapers[tasks[t].si], e)
              /\ tasks' = [tasks EXCEPT ![t].pc = "sleep",
                                        ![t].res = IF j = 0 THEN {} ELSE HeldFrom(j),
                                        ![t].exc = None, ![t].li = 0,
                                        ![t].seen_ids = {}, ![t].count = 0,
                                        ![t].saved = {}, ![t].caught = None]
    /\ UNCHANGED <<listings, price_history, today, response, scraper>>

\* the end of an attempt in a run_scrape that tries the same (model, source)
\* pair again
AfterSleep_retry(t) ==
    /\ tasks[t].pc = "sleep"
    /\ tasks' = [tasks EXCEPT ![t].pc = "enter", ![t].res = {}]
    /\ UNCHANGED <<scrape_status, listings, price_history, today, response, scraper>>

\* await asyncio.sleep(0.1) and the next pass of  for ScraperClass, ...;
\* the scraper object of the attempt is gone
AfterSleep(t) ==
    /\ tasks[t].pc = "sleep"
    /\ tasks' = [tasks EXCEPT
                    ![t].pc = IF tasks[t].si < Len(scrapers) THEN "enter" ELSE "history",
                    ![t].res = {},
                    ![t].si = IF tasks[t].si < Len(scrapers) THEN @ + 1 ELSE @]
    /\ UNCHANGED <<scrape_status, listings, price_history, today, response, scraper>>

\* await update_price_history(model_id) and the next pass of
\* for model in models;  what it raises leaves the loop
UpdateHistory(t) ==
    /\ tasks[t].pc = "history"
    /\ \/ /\ price_history' =
                 update_price_history(price_history, listings,
                                      tasks[t].models[tasks[t].mi].id, today)
          /\ IF tasks[t].mi < Len(tasks[t].models)
             THEN /\ scrape_status' =
                         [scrape_status EXCEPT !.current_model =
                              Some(Label(tasks[t].models[tasks[t].mi + 1]))]
                  /\ tasks' = [tasks EXCEPT ![t].pc = "enter",
                                            ![t].mi = @ + 1, ![t].si = 1]
             ELSE Finish(t)
       \/ /\ Finish(t)
          /\ UNCHANGED price_history
    /\ UNCHANGED <<listings, today, response, scraper>>

\* midnight
Tick ==
    /\ today < MaxDay
    /\ today' = today + 1
    /\ UNCHANGED <<scrape_status, tasks, listings, price_history, response, scraper>>

\* the model_id parameter of POST /api/scrape: absent, 0, the id of no
\* model (99) and the id of a tracked model
ModelIdInputs ==
    {None, Some(0), Some(99), Some(get_all_models[1].id)}

Next ==
    \/ get_scrape_status
    \/ \E model_id \in ModelIdInputs : trigger_scrape(model_id)
    \/ \E t \in TaskIds :
          \/ StartRun(t)
          \/ GetSettings(t)
          \/ GetModels(t)
          \/ AEnter(t)
          \/ Goto(t)
          \/ ScrapeLink(t)
          \/ EndLinks(t)
          \/ AExit(t)
          \/ AfterSleep(t)
          \/ UpdateHistory(t)


Spec == Init /\ [][Next]_vars

\* the steps of one background task
RunStep(t) ==
    \/ StartRun(t)
    \/ GetSettings(t)
    \/ GetModels(t)
    \/ AEnter(t)
    \/ Goto(t)
    \/ ScrapeLink(t)
    \/ EndLinks(t)
    \/ AExit(t)
    \/ AfterSleep(t)
    \/ UpdateHistory(t)

\* the event loop resumes every task that is ready, and every awaited
\* operation returns or raises: a task that can take a step takes one
Fairness == \A t \in TaskIds : WF_vars(RunStep(t))

SpecLive == Spec /\ Fairness

(***************************************************************************)
(* The store on its own: any sequence of save_listing and                  *)
(* update_price_history calls, over the days                               *)
(***************************************************************************)
Houston == <<"H","o","u","s","t","o","n",","," ","T","X">>
IdA == <<"a","1">>
IdB == <<"b","2">>
IdC == <<"c","3">>
CarsCom == scrapers[1]

\* the arguments of the save_listing calls
DbSamples ==
    { [model_id |-> 16, source |-> CarsCom,
       l |-> ListingData(IdA, 20000, Some(2022), Some(45231), Some(Houston),
                         CarsComBaseUrl \o HrefA)],
      [model_id |-> 16, source |-> CarsCom,
       l |-> ListingData(IdB, 30000, Some(2021), Some(10000), None,
                         CarsComBaseUrl \o HrefB)],
      [model_id |-> 16, source |-> CarsCom,
       l |-> ListingData(IdC, 25000, None, None, None, CarsComBaseUrl)],
      [model_id |-> 16, source |-> CarsCom,
       l |-> ListingData(IdA, 30000, Some(2021), None, None, HrefA)],
      [model_id |-> 5, source |-> CarsCom,
       l |-> ListingData(IdA, 25000, None, Some(10000), Some(Houston),
                         CarsComBaseUrl \o HrefA)] }

\* await save_listing(...)
DbSave(a) ==
    /\ listings' = save_listing(listings, a.model_id, a.source, a.l)
    /\ UNCHANGED <<scrape_status, tasks, price_history, today, response, scraper>>

\* await update_price_history(model_id)
DbUpdate(model_id) ==
    /\ price_history' = update_price_history(price_history, listings, model_id, today)
    /\ UNCHANGED <<scrape_status, tasks, listings, today, response, scraper>>

NextDb ==
    \/ \E a \in DbSamples : DbSave(a)
    \/ \E i \in 1..Len(Catalog) : DbUpdate(Catalog[i].id)
    \/ Tick

SpecDb == Init /\ [][NextDb]_vars

(***************************************************************************)
(* The adapters on their own: scrape_listings of each of the three, one    *)
(* element of the page at a time                                           *)
(***************************************************************************)
HrefNoSlash == <<"/","v","e","h","i","c","l","e","d","e","t","a","i","l","/","a","1">>
ShortText == <<"s","h","o","r","t"," ","t","e","x","t">>
Price5000 == <<"$","5",",","0","0","0">>
Price5001 == <<"$","5",",","0","0","1">>
Price500k == <<"$","5","0","0",",","0","0","0">>
Price500001 == <<"$","5","0","0",",","0","0","1">>
TitleSedan ==
    <<"2","0","2","2"," ","B","M","W"," ","s","e","d","a","n",","," ","o","n","e"," ","o","w","n","e","r"," ">>
TitleModelOnly ==
    <<"2","0","2","2"," ","i","4"," ","e","D","r","i","v","e","4","0"," ","G","r","a","n"," ","C","o","u","p","e"," ">>
NoPriceText == <<"C","a","l","l"," ","f","o","r"," ","p","r","i","c","e">>

CarsComSamples ==
    RunLinks \cup
    { Link(Some(HrefB), Some(TitleFord \o Price4500 \o TailText), "none"),
      Link(Some(HrefB), Some(TitleBMW \o Price5000 \o TailText), "none"),
      Link(Some(HrefB), Some(TitleBMW \o Price5001 \o TailText), "none"),
      Link(Some(HrefB), Some(TitleBMW \o Price500k \o TailText), "none"),
      Link(Some(HrefB), Some(TitleBMW \o Price500001 \o TailText), "none"),
      Link(Some(HrefB), Some(TitleBMW \o NoPriceText \o TailText), "none"),
      Link(Some(HrefB), Some(TitleModelOnly \o Price25k \o TailText), "none"),
      Link(Some(HrefA), Some(ShortText), "none"),
      Link(Some(HrefNoSlash), Some(TitleBMW \o Price25k \o TailText), "none"),
      Link(Some(HrefA), Some(TitleBMW \o Price25k \o TailText), "href"),
      Link(Some(HrefB), Some(TitleBMW \o Price25k \o TailText), "text") }

CarGurusElement(inner_text, data_listing_id, id, link_href, href, raises) ==
    [inner_text |-> inner_text, data_listing_id |-> data_listing_id, id |-> id,
     link_href |-> link_href, href |-> href, raises |-> raises]

CarGurusHref ==
    <<"/","C","a","r","s","/","l","-","U","s","e","d","-","B","M","W","-","i","4","-","d","2","1","0","?","V","I","N","=","1">>

CarGurusSamples ==
    { CarGurusElement(TitleBMW \o Price25k \o TailText, Some(<<"g","1">>), None,
                      Some(CarGurusHref), None, "none"),
      CarGurusElement(TitleBMW \o Price30k \o TailText, None, Some(<<"g","3">>),
                      None, Some(CarGurusHref), "none"),
      CarGurusElement(TitleBMW \o Price25k \o TailText, None, None, None, None, "none"),
      CarGurusElement(TitleBMW \o Price600k \o TailText, Some(<<"g","1">>), None,
                      None, None, "none"),
      CarGurusElement(TitleBMW \o Price4500 \o TailText, Some(<<"g","1">>), None,
                      None, None, "none"),
      CarGurusElement(TitleBMW \o Price500k \o TailText, Some(<<"g","1">>), None,
                      None, None, "none"),
      CarGurusElement(TitleFord \o Price25k \o TailText, Some(<<"g","3">>), None,
                      None, None, "none"),
      CarGurusElement(TitleSedan \o Price25k \o TailText, Some(<<"g","3">>), None,
                      None, None, "none"),
      CarGurusElement(ShortText, Some(<<"g","1">>), None, None, None, "none"),
      CarGurusElement(TitleBMW \o Price25k, Some(<<"g","1">>), None, None, None,
                      "inner_text"),
      CarGurusElement(TitleBMW \o Price25k, Some(<<"g","1">>), None, None, None,
                      "attr") }

AutotraderElement(data_listing_id, id, price_text, title_text, mileage_text,
                  location, href, raises) ==
    [data_listing_id |-> data_listing_id, id |-> id, price_text |-> price_text,
     title_text |-> title_text, mileage_text |-> mileage_text,
     location |-> location, href |-> href, raises |-> raises]

AutotraderHref ==
    <<"/","c","a","r","s","-","f","o","r","-","s","a","l","e","/","v","e","h","i","c","l","e","/","7","0","0","1">>
AutotraderTitle == <<"2","0","2","2"," ","B","M","W"," ","i","4">>
AutotraderMileage == <<"4","5",",","2","3","1"," ","m","i","l","e","s">>

AutotraderSamples ==
    { AutotraderElement(Some(<<"7","0","0","1">>), None, Some(Price25k),
                        Some(AutotraderTitle), Some(AutotraderMileage),
                        Some(Houston), Some(AutotraderHref), "none"),
      AutotraderElement(None, None, Some(Price600k), Some(AutotraderTitle), None,
                        None, Some(AutotraderHref \o <<"?","z","i","p","=","1">>),
                        "none"),
      AutotraderElement(None, Some(<<"g","3">>), Some(Price500k),
                        Some(AutotraderTitle), None, None, None, "none"),
      AutotraderElement(None, None, Some(Price30k), Some(AutotraderTitle), None,
                        None, None, "none"),
      AutotraderElement(Some(<<"7","0","0","1">>), None, Some(Price4500),
                        Some(AutotraderTitle), None, None, None, "none"),
      AutotraderElement(Some(<<"7","0","0","1">>), None, Some(NoPriceText),
                        Some(AutotraderTitle), None, None, None, "none"),
      AutotraderElement(Some(<<"7","0","0","1">>), None, None, None, None, None,
                        None, "none"),
      AutotraderElement(Some(<<"7","0","0","1">>), None, Some(Price25k),
                        Some(AutotraderTitle), None, None, None, "attr") }

Adapters == {"cars.com", "cargurus", "autotrader"}

\* scrape_listings(make, model) of an adapter is started on a page
Scrape(adapter, target) ==
    /\ scraper.pc = "idle"
    /\ scraper' = [IdleScraper EXCEPT !.pc = "loop", !.adapter = adapter,
                                      !.target = target]
    /\ UNCHANGED <<scrape_status, tasks, listings, price_history, today, response>>

\* the next link of CarsComScraper.scrape_listings
CarsComNext ==
    /\ scraper.pc = "loop" /\ scraper.adapter = "cars.com"
    /\ scraper.li < MaxElems /\ scraper.li < CarsComLinkCap
    /\ scraper.count < CarsComYieldCap
    /\ \E link \in CarsComSamples :
          LET r == CarsCom_link(link, scraper.seen_ids, Catalog[scraper.target].make)
          IN  scraper' = [scraper EXCEPT
                             !.li = @ + 1, !.seen_ids = r.seen_ids,
                             !.count = IF r.out = None THEN @ ELSE @ + 1,
                             !.out = r.out]
    /\ UNCHANGED <<scrape_status, tasks, listings, price_history, today, response>>

\* the next element of CarGurusScraper.scrape_listings
CarGurusNext ==
    /\ scraper.pc = "loop" /\ scraper.adapter = "cargurus"
    /\ scraper.li < MaxElems /\ scraper.li < CarGurusCap
    /\ \E listing \in CarGurusSamples :
          LET out == CarGurus_element(listing, Catalog[scraper.target].make,
                                      Catalog[scraper.target].model)
          IN  scraper' = [scraper EXCEPT
                             !.li = @ + 1,
                             !.count = IF out = None THEN @ ELSE @ + 1,
                             !.out = out]
    /\ UNCHANGED <<scrape_status, tasks, listings, price_history, today, response>>

\* the next element of AutotraderScraper.scrape_listings
AutotraderNext ==
    /\ scraper.pc = "loop" /\ scraper.adapter = "autotrader"
    /\ scraper.li < MaxElems /\ scraper.li < AutotraderCap
    /\ \E listing \in AutotraderSamples :
          LET out == Autotrader_element(listing)
          IN  scraper' = [scraper EXCEPT
                             !.li = @ + 1,
                             !.count = IF out = None THEN @ ELSE @ + 1,
                             !.out = out]
    /\ UNCHANGED <<scrape_status, tasks, listings, price_history, today, response>>

\* the generator is exhausted
ScrapeEnd ==
    /\ scraper.pc = "loop"
    /\ scraper' = IdleScraper
    /\ UNCHANGED <<scrape_status, tasks, listings, price_history, today, response>>

NextAdapters ==
    \/ \E adapter \in Adapters, target \in 1..Len(Catalog) : Scrape(adapter, target)
    \/ CarsComNext
    \/ CarGurusNext
    \/ AutotraderNext
    \/ ScrapeEnd

SpecAdapters == Init /\ [][NextAdapters]_vars

(***************************************************************************)
(* Properties                                                              *)
(***************************************************************************)
\* the task is past the guard of run_scrape and has not returned
InBody(t) == tasks[t].pc \notin {"free", "scheduled", "done"}

\* the rows of a table of listings with a natural key
RowsOfKey(table, source, external_id) ==
    {r \in table : r.source = source /\ r.external_id = external_id}

\* the rows of a table of snapshots for a model and a date
SnapshotsOf(history, model_id, date) ==
    {h \in history : h.model_id = model_id /\ h.date = date}

\* C1: single-flight.  Whatever the interleaving of triggers, status reads
\* and background tasks, at most one run_scrape invocation is past its
\* is_running guard at any time.
C1_SingleFlight == Cardinality({t \in TaskIds : InBody(t)}) <= 1

\* C1: a run is under way while a second background task waits to start
C1_Witness ==
    \E t, u \in TaskIds : InBody(t) /\ tasks[u].pc = "scheduled"

\* C2: a trigger_scrape call made while is_running is true answers 409,
\* adds no background task and leaves scrape_status (is_running,
\* current_model, progress, total, errors) as it was.
C2_ConflictLeavesRunUntouched ==
    [][\A model_id \in ModelIdInputs :
          (scrape_status.is_running /\ trigger_scrape(model_id))
              => /\ response'.op = "trigger" /\ response'.code = 409
                 /\ tasks' = tasks
                 /\ scrape_status' = scrape_status]_vars

\* C2: a trigger has been answered 409 during a run that has made progress
C2_Witness ==
    /\ scrape_status.is_running
    /\ scrape_status.progress > 0
    /\ response = [op |-> "trigger", code |-> 409]

\* C3: from the moment a trigger is accepted until the run it started is
\* over, every further trigger is answered 409 (none is accepted).
C3_FurtherTriggersConflict ==
    [][\A model_id \in ModelIdInputs :
          ((\E t \in TaskIds : tasks[t].pc \notin {"free", "done"})
               /\ trigger_scrape(model_id))
              => response'.code = 409]_vars

\* C4: whenever a run that entered Running ends, on any exit path, the
\* status it leaves has is_running = false, current_model = None and
\* progress = total.
C4_FinalStatus ==
    [][\A t \in TaskIds :
          (InBody(t) /\ tasks'[t].pc = "done")
              => /\ ~scrape_status'.is_running
                 /\ scrape_status'.current_model = None
                 /\ scrape_status'.progress = scrape_status'.total]_vars

\* C4: a run over both models has ended through an exception that left the
\* model loop: a listing was saved, and no snapshot was ever written
C4_Witness ==
    /\ \E t \in TaskIds : tasks[t].pc = "done"
    /\ \A t \in TaskIds : ~InBody(t)
    /\ ~scrape_status.is_running
    /\ scrape_status.total = 2 /\ scrape_status.progress = 2
    /\ listings # {} /\ price_history = {}

\* C5: when an adapter session raises after fragments were yielded and
\* persisted (save_listing raises on a later fragment, or __aexit__ raises),
\* the listings persisted in the attempt stay stored, exactly one error
\* string, for that (model, source) pair, is appended to errors, progress
\* goes up by exactly 1, and the run goes on (to the sleep before the next
\* adapter or model) instead of ending.
C5_SessionFailureIsContained ==
    [][\A t \in TaskIds :
          LET task == tasks[t]
              m == task.models[task.mi]
              source_name == scrapers[task.si]
              n == Len(scrape_status.errors)
          IN  (/\ task.pc = "exit" /\ tasks'[t].pc # "exit"
               /\ task.saved # {}
               /\ (task.exc # None \/ tasks'[t].res # {}))
                  => /\ \A id \in task.saved :
                            \E r \in RowsOfKey(listings', source_name, id) :
                                r.model_id = m.id
                     /\ Len(scrape_status'.errors) = n + 1
                     /\ SubSeq(scrape_status'.errors, 1, n) = scrape_status.errors
                     /\ scrape_status'.errors[n + 1].label = Label(m)
                     /\ scrape_status'.errors[n + 1].source = source_name
                     /\ scrape_status'.progress = scrape_status.progress + 1
                     /\ scrape_status'.is_running
                     /\ tasks'[t].pc = "sleep"]_vars

\* C5: the first attempt of the first run has saved a listing and then
\* failed: one error is recorded, progress is 1, the run is at its sleep
C5_Witness ==
    /\ tasks[1].pc = "sleep" /\ tasks[2].pc = "free"
    /\ scrape_status.progress = 1
    /\ Len(scrape_status.errors) = 1
    /\ scrape_status.errors[1].error \in {"DbError", "TeardownError"}
    /\ listings # {}

\* C6: a navigation or selector-wait timeout inside scrape_listings is
\* surfaced to the orchestrator, so that exactly one error string for that
\* (model, source) pair is appended to errors (and the run goes on).
C6_TimeoutIsRecorded ==
    [][\A t \in TaskIds :
          (/\ tasks[t].pc = "exit" /\ tasks'[t].pc # "exit"
           /\ tasks[t].caught = Some("TimeoutError"))
              => /\ Len(scrape_status'.errors) = Len(scrape_status.errors) + 1
                 /\ tasks'[t].pc = "sleep"]_vars

\* C7: a persistence failure (in a listing upsert or in the snapshot
\* recomputation of a model) never ends the run early: the run leaves the
\* model loop, at update_price_history, only after the last model.
C7_RunNeverEndsEarly ==
    [][\A t \in TaskIds :
          (tasks[t].pc = "history" /\ tasks'[t].pc = "done")
              => tasks[t].mi = Len(tasks[t].models)]_vars

\* C8: every ListingData yielded by scrape_listings of any of the three
\* adapters has 5000 < price <= 500000.
C8_YieldedPriceInRange ==
    scraper.out # None
        => Val(scraper.out).price > MinPrice /\ Val(scraper.out).price <= MaxPrice

\* C9: after any sequence of save_listing calls the listings table holds at
\* most one row per natural key (source, external_id), and right after a
\* call the one row of its key holds the model, year, price, mileage,
\* location and url of that call.
C9_LatestRowPerKey ==
    /\ [](\A r1, r2 \in listings :
             (r1.source = r2.source /\ r1.external_id = r2.external_id) => r1 = r2)
    /\ [][\A a \in DbSamples :
             DbSave(a) => RowsOfKey(listings', a.source, a.l.external_id)
                              = {ListingRow(a.model_id, a.source, a.l)}]_vars

\* C9: the key (cars.com, a1) was stored for model 16 at 20000, a snapshot
\* was taken, and the key now belongs to model 5 at 25000
C9_Witness ==
    /\ \E h \in price_history : h.model_id = 16 /\ h.min_price = 20000
    /\ \E r \in listings :
          r.external_id = IdA /\ r.model_id = 5 /\ r.price = 25000
    /\ Cardinality(RowsOfKey(listings, CarsCom, IdA)) = 1

\* C10: update_price_history called twice for the same model on the same
\* date, the stored listings unchanged in between, leaves exactly one
\* snapshot row for (model, date), and the second call changes nothing the
\* first one wrote.
C10_RecomputeTwice ==
    \A i \in 1..Len(Catalog) :
        LET once == update_price_history(price_history, listings, Catalog[i].id, today)
            twice == update_price_history(once, listings, Catalog[i].id, today)
        IN  /\ Cardinality(SnapshotsOf(twice, Catalog[i].id, today)) = 1
            /\ twice = once

\* C11: after update_price_history(M) on date D the stored snapshot for
\* (M, D) is the aggregate (count, min, max, avg) over the listings now
\* stored for M with price > 0, whatever happened to them since the last
\* computation; when M has no such listing left, no snapshot for (M, D)
\* reports listings.
C11_SnapshotIsCurrentAggregate ==
    \A i \in 1..Len(Catalog) :
        LET model_id == Catalog[i].id
            rows == {r \in listings : r.model_id = model_id /\ r.price > 0}
            after == update_price_history(price_history, listings, model_id, today)
        IN  IF rows = {}
            THEN \A h \in SnapshotsOf(after, model_id, today) : h.listing_count = 0
            ELSE SnapshotsOf(after, model_id, today)
                     = {SnapshotRow(rows, model_id, today)}

\* C12: every run that enters Running returns to Idle (its run_scrape
\* returns and is_running is false), each page holding finitely many links
\* and every awaited operation returning or raising; once no run is under
\* way, a trigger is accepted (200, a background task is added).
C12_RunReturnsToIdle ==
    /\ \A t \in TaskIds :
          InBody(t) ~> (tasks[t].pc = "done" /\ ~scrape_status.is_running)
    /\ [][\A model_id \in ModelIdInputs :
             ((\A t \in TaskIds : ~InBody(t)) /\ trigger_scrape(model_id))
                 => /\ response'.code = 200
                    /\ \E t \in TaskIds :
                          tasks[t].pc = "free" /\ tasks'[t].pc = "scheduled"]_vars

\* C12: the first run is over, after attempts on both models, and the
\* trigger that followed it has been accepted
C12_Witness ==
    /\ tasks[1].pc = "done" /\ tasks[2].pc = "scheduled"
    /\ ~scrape_status.is_running
    /\ scrape_status.total = 2
    /\ response = [op |-> "trigger", code |-> 200]

\* the adapter attempts a task has completed in its run, read off its
\* position in the loops of run_scrape
AttemptsDone(task) ==
    CASE task.pc \in {"enter", "goto", "links", "exit"} ->
             (task.mi - 1) * Len(scrapers) + (task.si - 1)
      [] task.pc = "sleep" -> (task.mi - 1) * Len(scrapers) + task.si
      [] task.pc = "history" -> task.mi * Len(scrapers)
      [] OTHER -> 0

\* C13: in every state in which a status read sees is_running = true, the
\* errors are errors of the current run (at most one per completed attempt),
\* progress is the number of adapter attempts the current run has completed,
\* 0 <= progress <= total, and, once the run has its target models, total is
\* their number times the number of adapters.
C13_StatusDuringRun ==
    scrape_status.is_running =>
        \E t \in TaskIds :
            /\ InBody(t)
            /\ scrape_status.progress = AttemptsDone(tasks[t])
            /\ 0 <= scrape_status.progress
            /\ scrape_status.progress <= scrape_status.total
            /\ Len(scrape_status.errors) <= AttemptsDone(tasks[t])
            /\ tasks[t].pc \notin {"settings", "models"}
                   => scrape_status.total = Len(tasks[t].models) * Len(scrapers)

\* C14: adapter sessions are sequential and scoped: at most one session
\* holds resources at any time, and when an attempt is over (the run is at
\* its sleep, before the next attempt and before the run ends) nothing the
\* session's setup acquired is still held, whether the setup failed part-way,
\* the body raised, or one teardown step failed.
C14_SessionsAreScoped ==
    /\ Cardinality({t \in TaskIds : tasks[t].res # {}}) <= 1
    /\ \A t \in TaskIds :
          tasks[t].pc \notin {"goto", "links", "exit"} => tasks[t].res = {}

\* C15: in a run_scrape each (model, source) pair is attempted exactly once,
\* in order, and never again; the snapshot of a model is recomputed exactly
\* once, after the last adapter attempt for the model is over and before the
\* first attempt for the next model; price_history changes at no other point.
C15_AttemptsThenSnapshot ==
    [][\A t \in TaskIds :
          LET a == tasks[t]
              b == tasks'[t]
              recomputed ==
                  price_history' = update_price_history(price_history, listings,
                                                        a.models[a.mi].id, today)
          IN  /\ (a.pc = "enter" /\ b.pc # "enter")
                     => b.mi = a.mi /\ b.si = a.si /\ b.pc \in {"goto", "sleep"}
              /\ (b.pc = "enter" /\ a # b)
                     => \/ a.pc = "models" /\ b.mi = 1 /\ b.si = 1
                        \/ /\ a.pc = "sleep" /\ a.si < Len(scrapers)
                           /\ b.mi = a.mi /\ b.si = a.si + 1
                        \/ /\ a.pc = "history" /\ a.mi < Len(a.models)
                           /\ b.mi = a.mi + 1 /\ b.si = 1
                           /\ recomputed
              /\ (b.pc = "history" /\ a # b)
                     => /\ a.pc = "sleep" /\ a.si = Len(scrapers)
                        /\ b.mi = a.mi
                        /\ price_history' = price_history
              /\ (a.pc = "history" /\ a # b)
                     => /\ b.pc \in {"enter", "done"}
                        /\ recomputed \/ (b.pc = "done" /\ price_history' = price_history)
              /\ (a.pc # "history" /\ a # b) => price_history' = price_history]_vars

\* C15: a run over both models is over with no error recorded: each model
\* was attempted once and has its snapshot
C15_Witness ==
    /\ tasks[1].pc = "done" /\ tasks[2].pc = "free"
    /\ scrape_status.total = 2 /\ scrape_status.errors = <<>>
    /\ \A i \in 1..Len(Catalog) :
          Cardinality(SnapshotsOf(price_history, Catalog[i].id, today)) = 1

\* C16: a single scrape_listings call of any of the three adapters examines
\* at most 30 candidate elements, and so yields at most 30 listings, however
\* many elements the page holds.
C16_AtMost30Examined ==
    scraper.pc = "loop" => scraper.li <= 30 /\ scraper.count <= 30

\* C17: within one scrape_listings call, an exception while extracting one
\* fragment skips only that fragment: the failed candidate yields nothing,
\* and every later candidate yields what it would yield had the failed one
\* not been on the page (a later valid fragment is still yielded).
C17_FailureSkipsOnlyItsFragment ==
    /\ (scraper.pc = "loop" /\ scraper.adapter = "cars.com") =>
          \A x \in CarsComSamples :
              x.raises # "none" =>
                  LET make == Catalog[scraper.target].make
                      failed == CarsCom_link(x, scraper.seen_ids, make)
                  IN  /\ failed.out = None
                      /\ \A y \in CarsComSamples :
                            CarsCom_link(y, failed.seen_ids, make).out
                                = CarsCom_link(y, scraper.seen_ids, make).out
    /\ (scraper.pc = "loop" /\ scraper.adapter = "cargurus") =>
          \A x \in CarGurusSamples :
              x.raises # "none" =>
                  CarGurus_element(x, Catalog[scraper.target].make,
                                   Catalog[scraper.target].model) = None

\* the price of a fragment's text is in the range that is persisted
PriceInRange(text) ==
    /\ IsSome(PriceMatch(text))
    /\ parse_price(Val(PriceMatch(text))) > MinPrice
    /\ parse_price(Val(PriceMatch(text))) <= MaxPrice

\* C18: the make/model gate of the CarGurus and Cars.com adapters rejects a
\* fragment with an in-range price exactly when neither the make nor the
\* first word of the model name occurs in its text: a fragment in which at
\* least one of the two occurs is yielded.
C18_GateRejectsIffNeither ==
    LET MakeOrModelOccurs(text, make, model) ==
            \/ Contains(ToLower(text), ToLower(make))
            \/ Contains(ToLower(text), FirstWord(ToLower(model)))
    IN
    /\ (scraper.pc = "loop" /\ scraper.adapter = "cargurus") =>
          \A x \in CarGurusSamples :
              LET make == Catalog[scraper.target].make
                  model == Catalog[scraper.target].model
              IN  (/\ x.raises = "none"
                   /\ Len(x.inner_text) >= MinTextLen
                   /\ PriceInRange(x.inner_text))
                      => (CarGurus_element(x, make, model) # None
                              <=> MakeOrModelOccurs(x.inner_text, make, model))
    /\ (scraper.pc = "loop" /\ scraper.adapter = "cars.com") =>
          \A x \in CarsComSamples :
              LET make == Catalog[scraper.target].make
                  model == Catalog[scraper.target].model
              IN  (/\ x.raises = "none"
                   /\ x.href # None /\ x.text # None
                   /\ IdMatch(Val(x.href)) # None
                   /\ Len(Val(x.text)) >= MinTextLen
                   /\ PriceInRange(Val(x.text)))
                      => (CarsCom_link(x, {}, make).out # None
                              <=> MakeOrModelOccurs(Val(x.text), make, model))

\* C19: a run triggered for an explicit set S of models attempts adapters
\* only for models in S, and none of its steps changes the stored listings
\* of a model outside S (the model a listing references included) or the
\* snapshots of a model outside S, also when a scraped fragment carries a
\* natural key (source, external_id) already stored under another model.
C19_TargetedRunFrame ==
    [][\A t \in TaskIds :
          (InBody(t) /\ tasks[t].model_ids # None /\ tasks'[t] # tasks[t])
              => LET S == Val(tasks[t].model_ids)
                 IN  /\ \A i \in 1..Len(tasks'[t].models) :
                           tasks'[t].models[i].id \in S
                     /\ {r \in listings' : r.model_id \notin S}
                            = {r \in listings : r.model_id \notin S}
                     /\ {h \in price_history' : h.model_id \notin S}
                            = {h \in price_history : h.model_id \notin S}]_vars

=============================================================================
